---- MODULE Spec2Model ----
(***************************************************************************)
(* Model of the client-side logic of src/services/geminiService.ts and of  *)
(* the components that drive it:                                           *)
(*   - pollVeoOperation / generateVideoFromText (the long-running          *)
(*     operation poller) and the for-await loop that consumes it;          *)
(*   - startLiveConversation (the live audio session: onopen, onmessage,   *)
(*     close) and the LiveConversation component that owns the handle.     *)
(*   - the adapters that issue a single request (chat, image, video       *)
(*     analysis, transcription, speech);                                   *)
(*   - encode, decode, pcmToWav, decodeAudioData and the sample            *)
(*     conversion of the capture callback;                                 *)
(*   - the Chat component's handleSend and the prompt recording handlers   *)
(*     of the VideoGenerator component.                                    *)
(* The specifications share the variables: SpecPoller (the poller and its  *)
(* consumer; SpecPollerFair adds fairness), SpecLive (the life cycle of a  *)
(* live session), SpecPlayback (the inbound-message path of an open live   *)
(* session), SpecShutdown (an open session being closed), SpecCursor (an   *)
(* open session with all its callbacks), SpecAdapters, SpecRemoteCalls     *)
(* (every remote request), SpecCodec, SpecDecodeAudio, SpecCapture,        *)
(* SpecChat and SpecRecorder.                                              *)
(***************************************************************************)
EXTENDS Integers, Sequences, FiniteSets, TLC

VARIABLES
    \* ---- poller (geminiService.ts 217-256) ----
    genPc,            \* position of the async generator
    yieldAt,          \* which yield statement it is suspended at
    currentOperation, \* [done, uri]: the operation handle last fetched
    progress,         \* local variable progress
    emitted,          \* history: the snapshots yielded so far, in order
    fetches,          \* history: outcome of every getVideosOperation call
    nextCalls,        \* history: values the consumer asked the generator for
    submits,          \* history: generateVideos requests issued
    thrown,           \* history: message of the error the generator threw
    \* ---- VideoGenerator component (TextToSpeech.tsx 92-171) ----
    apiKeySelected,
    generationError,  \* generationState.error as rendered
    isLoading,        \* state isLoading
    messageInterval,  \* the interval of the rotating progress messages
    \* ---- live session (geminiService.ts 304-387) ----
    connectPc,        \* ai.live.connect / sessionPromise
    onopenPc,         \* position of the async onopen callback
    scriptProcessor,  \* capture node
    inputAudioContext,
    audioStream,      \* microphone tracks
    outputAudioContext,
    remoteSession,
    released,         \* history: how often each release action was performed
    handleReturned,   \* startLiveConversation resolved with a LiveSession
    closeCalls,       \* history: number of close() invocations
    pipelinesCreated, \* history: capture pipelines built by onopen
    pendingSends,     \* callbacks of line 335 waiting for sessionPromise
    forwarded,        \* history: sendRealtimeInput calls made
    forwardedClosed,  \* history: those made after close() had been invoked
    connects,         \* history: ai.live.connect requests issued
    nextStartTime,
    sources,          \* Set<AudioBufferSourceNode>, by id
    inflight,         \* onmessage invocations suspended in decodeAudioData
    currentTime,      \* outputAudioContext.currentTime
    srcInfo,          \* history: per created source its start, duration, ...
    nCreated,         \* number of audio frames delivered so far
    lastScheduled,    \* history: id of the source started last (0: none)
    stopped,          \* history: the sources stop() was called on
    interrupts,       \* history: number of interruption signals handled
    \* ---- LiveConversation component (LiveConversation.tsx) ----
    isSessionActive,
    sessionRef,
    startPc,          \* position of startSession
    uiError,
    mounted,
    \* ---- single-request adapters (geminiService.ts 95-213, 278-292, 390-429) ----
    adapterKind,      \* the adapter invoked last
    adapterPc,        \* position of that invocation
    grounding,        \* generateChatResponseStream's grounding argument
    requests,         \* history: remote requests issued by the invocation
    locationReads,    \* history: getCurrentPosition calls of the invocation
    requestLatLng,    \* whether the request carried toolConfig.retrievalConfig
    adapterError,     \* the error the invocation raised to its caller
    invocations,      \* history: adapter invocations so far
    \* ---- codec (geminiService.ts 8-26, 56-84) ----
    pcmData,          \* the bytes handed to encode / pcmToWav
    base64,           \* encode's result
    decoded,          \* decode's result
    wav,              \* pcmToWav's result
    \* ---- PCM conversions (geminiService.ts 29-46, 323-329) ----
    decodeChannels,   \* decodeAudioData's numChannels argument
    audioBuffer,      \* decodeAudioData's result
    inputData,        \* the float samples onaudioprocess is given
    int16,            \* the Int16Array it fills
    \* ---- Chat component (Chat.tsx 21-66) ----
    chatPc,           \* position of handleSend
    chatIsLoading,    \* state isLoading of the component
    chatChunks,       \* history: the chunks the stream has yielded, in order
    updateQueue,      \* state-update functions React has queued, not yet run
    messageText,      \* text of the last (model) message, as its fragments
    messageGrounding, \* groundingChunks of the last message
    finalGroundingChunks, \* local variable of handleSend
    \* ---- prompt recording of VideoGenerator (TextToSpeech.tsx 189-223) ----
    mediaRecorder,    \* state of mediaRecorderRef.current
    micTrack,         \* state of the recorder's stream track
    audioChunks,      \* audioChunksRef.current
    recorderTasks,    \* events the recorder has queued, not yet fired
    isRecording,
    isTranscribing,
    recorderError,    \* generationState.error as set by the two handlers
    pendingTranscriptions, \* transcribeAudio calls not yet settled
    transcribeCalls,  \* history: the chunks of every Blob handed to transcribeAudio
    trackStopCalls,   \* history: number of track.stop() calls
    handlerFailures,  \* history: handler invocations that ended by throwing
    recordings        \* history: recordings started

pollerHist == <<nextCalls, submits, thrown>>
videoUiVars == <<apiKeySelected, generationError, isLoading, messageInterval>>
pollerVars == <<genPc, yieldAt, currentOperation, progress, emitted, fetches,
                pollerHist, videoUiVars>>
liveVars == <<connectPc, onopenPc, scriptProcessor, inputAudioContext, audioStream,
              outputAudioContext, remoteSession, released, handleReturned,
              closeCalls, pipelinesCreated, pendingSends, forwarded, forwardedClosed,
              connects, nextStartTime, sources, inflight, currentTime, srcInfo,
              nCreated, lastScheduled, stopped, interrupts>>
uiVars == <<isSessionActive, sessionRef, startPc, uiError, mounted>>
adapterVars == <<adapterKind, adapterPc, grounding, requests, locationReads, requestLatLng,
                 adapterError, invocations>>
pcmVars == <<decodeChannels, audioBuffer, inputData, int16>>
chatVars == <<chatPc, chatIsLoading, chatChunks, updateQueue, messageText, messageGrounding,
               finalGroundingChunks>>
recorderVars == <<mediaRecorder, micTrack, audioChunks, recorderTasks, isRecording,
                   isTranscribing, recorderError, pendingTranscriptions, transcribeCalls,
                   trackStopCalls, handlerFailures, recordings>>
screenVars == <<chatVars, recorderVars>>
codecVars == <<pcmData, base64, decoded, wav, pcmVars, screenVars>>
vars == <<pollerVars, liveVars, uiVars, adapterVars, codecVars>>

Null == "null"

\* JavaScript truthiness of a string-or-null value
Truthy(s) == s # Null /\ s # ""

Min(a, b) == IF a < b THEN a ELSE b
Max(a, b) == IF a > b THEN a ELSE b

Last(s) == s[Len(s)]

(***************************************************************************)
(*                              THE POLLER                                 *)
(***************************************************************************)

\* bound: the server answers "still pending" at most this many times
MaxPending == 19

InitialProgress == 10
ProgressStep == 5
ProgressCap == 95
TerminalProgress == 100

\* e.message of the errors the remote calls can throw
ErrorMessages == {"", "entity was not found", "Requested entity was not found.",
                  "network error"}

\* TextToSpeech.tsx 151 and 162: message.includes("entity was not found")
IncludesEntityNotFound(msg) ==
    msg \in {"entity was not found", "Requested entity was not found."}

\* TextToSpeech.tsx 153 and 164
InvalidKeyMessage == "API key not found or invalid. Please select a valid key."

\* response?.generatedVideos?.[0]?.video?.uri of a finished operation
DownloadLinks == {Null, "", "https://video"}

\* what getVideosOperation / generateVideos can resolve with
OperationResponses ==
    {[done |-> FALSE, uri |-> Null]} \cup
    {[done |-> TRUE, uri |-> u] : u \in DownloadLinks}

Snapshot(p, m, v, e) == [progress |-> p, message |-> m, videoUrl |-> v, error |-> e]

\* the first snapshot reporting no progress yet
StartedSnapshotAtZero(p) ==
    Snapshot(0, "Operation started. Waiting for completion...", Null, Null)

\* line 220
StartedSnapshot(p) ==
    Snapshot(p, "Operation started. Waiting for completion...", Null, Null)

\* the cap of line 227 forgotten
NextProgressUncapped(p) == p + ProgressStep

\* line 227
NextProgress(p) == Min(p + ProgressStep, ProgressCap)

\* line 228
ProcessingSnapshot(p) == Snapshot(p, "Processing video...", Null, Null)

\* a poll failure reported without its message
PollFailedSnapshotNoError(msg) == Snapshot(TerminalProgress, "Polling failed.", Null, Null)

\* line 230
PollFailedSnapshot(msg) == Snapshot(TerminalProgress, "Polling failed.", Null, msg)

\* `${downloadLink}&key=${process.env.API_KEY}`
WithKey(link) == <<link, "&key=">>

\* the test of line 236 forgotten: every completion is reported as a success
FinalSnapshotUnchecked(op) ==
    Snapshot(TerminalProgress, "Video generated successfully!", WithKey(op.uri), Null)

\* lines 235-241
FinalSnapshot(op) ==
    IF Truthy(op.uri)
    THEN Snapshot(TerminalProgress, "Video generated successfully!", WithKey(op.uri), Null)
    ELSE Snapshot(TerminalProgress, "Generation failed to produce a video.", Null,
                  "No video URI found in response.")

PendingSoFar == Cardinality({i \in 1..Len(fetches) : fetches[i] = "pending"})

\* TextToSpeech.tsx 147: the for-await loop asks the generator for its first value;
\* generateVideoFromText starts and issues the initial request (lines 245-254)
HandleGenerate ==
    /\ genPc = "notStarted"
    /\ apiKeySelected
    /\ ~isLoading
    /\ genPc' = "submitting"
    /\ generationError' = Null
    /\ isLoading' = TRUE
    /\ messageInterval' = "running"
    /\ nextCalls' = nextCalls + 1
    /\ submits' = submits + 1
    /\ UNCHANGED <<yieldAt, currentOperation, progress, emitted, fetches, thrown,
                   apiKeySelected, liveVars, uiVars, adapterVars, codecVars>>

\* lines 246-255, 218-220: generateVideos resolves, pollVeoOperation is entered
\* and yields its first snapshot
GenerateVideosResolved ==
    /\ genPc = "submitting"
    /\ \E op \in OperationResponses :
        /\ currentOperation' = op
        /\ progress' = InitialProgress
        /\ emitted' = Append(emitted, StartedSnapshot(InitialProgress))
    /\ genPc' = "yield"
    /\ yieldAt' = "started"
    /\ UNCHANGED <<fetches, pollerHist, videoUiVars, liveVars, uiVars, adapterVars, codecVars>>

\* line 246: the initial request throws; the generator ends by throwing, the
\* catch of TextToSpeech.tsx 159-167 shows the error and the finally of line
\* 168 clears isLoading; line 157 is not reached
GenerateVideosRejected ==
    /\ genPc = "submitting"
    /\ genPc' = "threw"
    /\ \E msg \in ErrorMessages :
        /\ thrown' = msg
        /\ apiKeySelected' = IF IncludesEntityNotFound(msg) THEN FALSE ELSE apiKeySelected
        /\ generationError' = IF IncludesEntityNotFound(msg) THEN InvalidKeyMessage ELSE msg
    /\ isLoading' = FALSE
    /\ UNCHANGED <<yieldAt, currentOperation, progress, emitted, fetches, nextCalls,
                   submits, messageInterval, liveVars, uiVars, adapterVars, codecVars>>

\* lines 235-241 forgotten: the loop left, the generator ends at once
ResumeGeneratorNoFinal ==
    CASE yieldAt \in {"started", "processing"} /\ ~currentOperation.done ->
            /\ genPc' = "sleeping"
            /\ UNCHANGED <<yieldAt, emitted>>
      [] OTHER ->
            /\ genPc' = "returned"
            /\ UNCHANGED <<yieldAt, emitted>>

\* the return of line 231 forgotten: after a failed fetch the loop goes on
ResumeGeneratorNoReturn ==
    CASE yieldAt \in {"started", "processing", "pollFailed"} /\ ~currentOperation.done ->
            /\ genPc' = "sleeping"
            /\ UNCHANGED <<yieldAt, emitted>>
      [] yieldAt \in {"started", "processing", "pollFailed"} /\ currentOperation.done ->
            /\ genPc' = "yield"
            /\ yieldAt' = "final"
            /\ emitted' = Append(emitted, FinalSnapshot(currentOperation))
      [] OTHER ->
            /\ genPc' = "returned"
            /\ UNCHANGED <<yieldAt, emitted>>

\* the generator is resumed after a yield: lines 222 and 235-241, or the
\* return of line 231, or the end of the function
ResumeGenerator ==
    CASE yieldAt \in {"started", "processing"} /\ ~currentOperation.done ->
            /\ genPc' = "sleeping"
            /\ UNCHANGED <<yieldAt, emitted>>
      [] yieldAt \in {"started", "processing"} /\ currentOperation.done ->
            /\ genPc' = "yield"
            /\ yieldAt' = "final"
            /\ emitted' = Append(emitted, FinalSnapshot(currentOperation))
      [] OTHER ->
            /\ genPc' = "returned"
            /\ UNCHANGED <<yieldAt, emitted>>

\* TextToSpeech.tsx 157 and 168-170: once the loop is left the interval is
\* cleared and the finally block clears isLoading
LoopLeft(left) ==
    IF left
    THEN messageInterval' = "cleared" /\ isLoading' = FALSE
    ELSE UNCHANGED <<messageInterval, isLoading>>

\* TextToSpeech.tsx 147-149: the snapshot carried no (truthy) error, the loop
\* asks for the next value; when the generator has ended the loop is left
ConsumerNext ==
    /\ genPc = "yield"
    /\ ~Truthy(Last(emitted).error)
    /\ generationError' = Last(emitted).error
    /\ nextCalls' = nextCalls + 1
    /\ ResumeGenerator
    /\ LoopLeft(genPc' = "returned")
    /\ UNCHANGED <<currentOperation, progress, fetches, submits, thrown, apiKeySelected,
                   liveVars, uiVars, adapterVars, codecVars>>

\* TextToSpeech.tsx 148: setGenerationState(prev => ({...prev, ...state})) is
\* handed an updater that reads state.error when React runs it; line 153
\* overwrites state.error afterwards. React runs the updater either at once
\* (the component has no update pending) or at the next render: the error
\* rendered is the one the updater saw.
RenderedError(raw) ==
    IF IncludesEntityNotFound(raw) THEN {raw, InvalidKeyMessage} ELSE {raw}

\* TextToSpeech.tsx 148-156: the snapshot carries an error; break closes the
\* generator at its yield
ConsumerBreak ==
    /\ genPc = "yield"
    /\ Truthy(Last(emitted).error)
    /\ genPc' = "returned"
    /\ generationError' \in RenderedError(Last(emitted).error)
    /\ LoopLeft(TRUE)
    /\ apiKeySelected' = IF IncludesEntityNotFound(Last(emitted).error)
                         THEN FALSE ELSE apiKeySelected
    /\ UNCHANGED <<yieldAt, currentOperation, progress, emitted, fetches, pollerHist,
                   liveVars, uiVars, adapterVars, codecVars>>

\* line 223: the 10 second timer fires, lines 225-226 issue the status fetch
SleepElapsed ==
    /\ genPc = "sleeping"
    /\ genPc' = "fetching"
    /\ UNCHANGED <<yieldAt, currentOperation, progress, emitted, fetches, pollerHist,
                   videoUiVars, liveVars, uiVars, adapterVars, codecVars>>

\* lines 227-228 run only for an operation that is still pending: a fetch that
\* finds the operation complete goes straight to the final snapshot
FetchResolvedPendingOnly ==
    /\ genPc = "fetching"
    /\ \E op \in OperationResponses :
        /\ ~op.done => PendingSoFar < MaxPending
        /\ currentOperation' = op
        /\ fetches' = Append(fetches, IF op.done THEN "done" ELSE "pending")
        /\ IF op.done
           THEN /\ progress' = progress
                /\ emitted' = Append(emitted, FinalSnapshot(op))
                /\ yieldAt' = "final"
           ELSE /\ progress' = NextProgress(progress)
                /\ emitted' = Append(emitted, ProcessingSnapshot(progress'))
                /\ yieldAt' = "processing"
    /\ genPc' = "yield"
    /\ UNCHANGED <<pollerHist, videoUiVars, liveVars, uiVars, adapterVars, codecVars>>

\* a poller that does not wait to be asked: after the snapshot of line 228 it
\* goes on to the next sleep
FetchResolvedEager ==
    /\ genPc = "fetching"
    /\ \E op \in OperationResponses :
        /\ ~op.done => PendingSoFar < MaxPending
        /\ currentOperation' = op
        /\ fetches' = Append(fetches, IF op.done THEN "done" ELSE "pending")
    /\ progress' = NextProgress(progress)
    /\ emitted' = Append(emitted, ProcessingSnapshot(progress'))
    /\ genPc' = IF currentOperation'.done THEN "yield" ELSE "sleeping"
    /\ yieldAt' = "processing"
    /\ UNCHANGED <<pollerHist, videoUiVars, liveVars, uiVars, adapterVars, codecVars>>

\* lines 226-228: the status fetch resolves
FetchResolved ==
    /\ genPc = "fetching"
    /\ \E op \in OperationResponses :
        /\ ~op.done => PendingSoFar < MaxPending
        /\ currentOperation' = op
        /\ fetches' = Append(fetches, IF op.done THEN "done" ELSE "pending")
    /\ progress' = NextProgress(progress)
    /\ emitted' = Append(emitted, ProcessingSnapshot(progress'))
    /\ genPc' = "yield"
    /\ yieldAt' = "processing"
    /\ UNCHANGED <<pollerHist, videoUiVars, liveVars, uiVars, adapterVars, codecVars>>

\* lines 229-231: the status fetch throws
FetchRejected ==
    /\ genPc = "fetching"
    /\ \E msg \in ErrorMessages :
        emitted' = Append(emitted, PollFailedSnapshot(msg))
    /\ fetches' = Append(fetches, "error")
    /\ genPc' = "yield"
    /\ yieldAt' = "pollFailed"
    /\ UNCHANGED <<currentOperation, progress, pollerHist, videoUiVars, liveVars, uiVars, adapterVars, codecVars>>

PollerInit ==
    /\ genPc = "notStarted"
    /\ yieldAt = "none"
    /\ currentOperation = [done |-> FALSE, uri |-> Null]
    /\ progress = 0
    /\ emitted = <<>>
    /\ fetches = <<>>
    /\ nextCalls = 0
    /\ submits = 0
    /\ thrown = Null
    /\ apiKeySelected = TRUE
    /\ generationError = Null
    /\ isLoading = FALSE
    /\ messageInterval = "none"

(***************************************************************************)
(*                           THE LIVE SESSION                              *)
(***************************************************************************)

\* bounds
MaxCloseCalls == 2
MaxFrames == 2
MaxInterrupts == 1
MaxTime == 2
MaxCaptured == 2

\* audioBuffer.duration of the frames the server can send
Durations == {1, 2}

ReleaseActions == {"disconnect", "inputClose", "trackStop", "outputClose", "sessionClose"}

liveHist == <<pipelinesCreated, pendingSends, forwarded, forwardedClosed, connects>>
captureVars == <<scriptProcessor, inputAudioContext, audioStream, liveHist>>
playbackVars == <<nextStartTime, sources, inflight, currentTime, srcInfo, nCreated,
                  lastScheduled, stopped, interrupts>>

\* ------------------------------------------------------------------ close
\* lines 379-385: the body of close()
CloseBody ==
    /\ scriptProcessor' = IF scriptProcessor # Null THEN "disconnected" ELSE Null
    /\ inputAudioContext' = IF inputAudioContext # Null THEN "closed" ELSE Null
    /\ audioStream' = IF audioStream # Null THEN "stopped" ELSE Null
    /\ outputAudioContext' = "closed"
    /\ remoteSession' = IF remoteSession = "open" THEN "closing" ELSE remoteSession
    /\ released' = [r \in ReleaseActions |->
          CASE r = "disconnect" -> released[r] + (IF scriptProcessor # Null THEN 1 ELSE 0)
            [] r = "inputClose" -> released[r] + (IF inputAudioContext # Null THEN 1 ELSE 0)
            [] r = "trackStop" -> released[r] + (IF audioStream # Null THEN 1 ELSE 0)
            [] OTHER -> released[r] + 1]
    /\ closeCalls' = closeCalls + 1
    /\ UNCHANGED liveHist

\* a close() that also stopped what is scheduled and rewound the cursor
closeStoppingSources ==
    /\ handleReturned
    /\ closeCalls < MaxCloseCalls
    /\ CloseBody
    /\ sources' = {}
    /\ nextStartTime' = 0
    /\ UNCHANGED <<pollerVars, adapterVars, codecVars, connectPc, onopenPc, handleReturned,
                   inflight, currentTime, srcInfo, nCreated, lastScheduled, stopped,
                   interrupts, uiVars>>

\* LiveSession.close invoked by a holder of the handle
close ==
    /\ handleReturned
    /\ closeCalls < MaxCloseCalls
    /\ CloseBody
    /\ UNCHANGED <<pollerVars, adapterVars, codecVars, connectPc, onopenPc, handleReturned, playbackVars, uiVars>>

\* LiveConversation.tsx 69-76
StopSessionBody ==
    /\ IF sessionRef # Null
       THEN CloseBody /\ sessionRef' = Null
       ELSE UNCHANGED <<scriptProcessor, inputAudioContext, audioStream, liveHist,
                        outputAudioContext, remoteSession, released, closeCalls,
                        sessionRef>>
    /\ isSessionActive' = FALSE

\* the Stop button (LiveConversation.tsx 99-102)
stopSession ==
    /\ mounted
    /\ isSessionActive
    /\ StopSessionBody
    /\ UNCHANGED <<pollerVars, adapterVars, codecVars, connectPc, onopenPc, handleReturned, playbackVars, startPc,
                   uiError, mounted>>

\* LiveConversation.tsx 79-83: cleanup on unmount
Unmount ==
    /\ mounted
    /\ StopSessionBody
    /\ mounted' = FALSE
    /\ UNCHANGED <<pollerVars, adapterVars, codecVars, connectPc, onopenPc, handleReturned, playbackVars, startPc, uiError>>

\* ------------------------------------------------------------------ open
\* the Start button (LiveConversation.tsx 49-54) and geminiService.ts 305-314:
\* the output context is created and the connect is issued
startSession ==
    /\ mounted
    /\ ~isSessionActive
    /\ startPc = "idle"
    /\ connectPc = "idle"
    /\ startPc' = "awaiting"
    /\ uiError' = Null
    /\ connectPc' = "connecting"
    /\ connects' = connects + 1
    /\ outputAudioContext' = "running"
    /\ UNCHANGED <<pollerVars, adapterVars, codecVars, onopenPc, scriptProcessor, inputAudioContext, audioStream,
                   pipelinesCreated, pendingSends, forwarded, forwardedClosed, remoteSession, released, handleReturned,
                   closeCalls, playbackVars, isSessionActive, sessionRef, mounted>>

\* the socket opens: the SDK invokes onopen without awaiting it; the callback
\* runs up to its await of getUserMedia (lines 317-318)
onopenRepeated ==
    /\ connectPc \in {"connecting", "opened"}
    /\ onopenPc \in {"idle", "done"}
    /\ connectPc' = "opened"
    /\ remoteSession' = "open"
    /\ onopenPc' = "awaitingMic"
    /\ UNCHANGED <<pollerVars, adapterVars, codecVars, captureVars, outputAudioContext, released, handleReturned,
                   closeCalls, playbackVars, uiVars>>

onopen ==
    /\ connectPc = "connecting"
    /\ connectPc' = "opened"
    /\ remoteSession' = "open"
    /\ onopenPc' = "awaitingMic"
    /\ UNCHANGED <<pollerVars, adapterVars, codecVars, captureVars, outputAudioContext, released, handleReturned,
                   closeCalls, playbackVars, uiVars>>

\* the connect fails: sessionPromise rejects, line 376 throws, startSession
\* catches (LiveConversation.tsx 62-66)
ConnectRejected ==
    /\ connectPc = "connecting"
    /\ connectPc' = "rejected"
    /\ startPc' = "failed"
    /\ uiError' = "Could not access microphone or start session."
    /\ UNCHANGED <<pollerVars, adapterVars, codecVars, onopenPc, captureVars, outputAudioContext, remoteSession, released,
                   handleReturned, closeCalls, playbackVars, isSessionActive,
                   sessionRef, mounted>>

\* line 376-386 and LiveConversation.tsx 59-61: sessionPromise resolves, the
\* handle is returned, the sends queued on the promise (line 335) run,
\* startSession stores the handle and shows the session as active
SessionResolved ==
    /\ connectPc = "opened"
    /\ startPc = "awaiting"
    /\ connectPc' = "resolved"
    /\ handleReturned' = TRUE
    /\ startPc' = "started"
    /\ sessionRef' = "session"
    /\ isSessionActive' = TRUE
    /\ forwarded' = forwarded + pendingSends
    /\ pendingSends' = 0
    /\ UNCHANGED <<pollerVars, adapterVars, codecVars, onopenPc, scriptProcessor, inputAudioContext, audioStream,
                   pipelinesCreated, forwardedClosed, connects, outputAudioContext, remoteSession,
                   released, closeCalls, playbackVars, uiError, mounted>>

\* lines 318-340: getUserMedia resolves, the capture pipeline is built
MicGranted ==
    /\ onopenPc = "awaitingMic"
    /\ onopenPc' = "done"
    /\ audioStream' = "live"
    /\ inputAudioContext' = "running"
    /\ scriptProcessor' = "connected"
    /\ pipelinesCreated' = pipelinesCreated + 1
    /\ UNCHANGED <<pendingSends, forwarded, forwardedClosed, connects>>
    /\ UNCHANGED <<pollerVars, adapterVars, codecVars, connectPc, outputAudioContext, remoteSession, released,
                   handleReturned, closeCalls, playbackVars, uiVars>>

\* line 318: getUserMedia rejects; the async callback's promise rejects and
\* nobody observes it
MicDenied ==
    /\ onopenPc = "awaitingMic"
    /\ onopenPc' = "micDenied"
    /\ UNCHANGED <<pollerVars, adapterVars, codecVars, connectPc, captureVars, outputAudioContext, remoteSession, released,
                   handleReturned, closeCalls, playbackVars, uiVars>>

\* line 365 and LiveConversation.tsx 38-42: onerror -> handleError -> stopSession
onerror ==
    /\ connectPc \in {"opened", "resolved"}
    /\ remoteSession # "closed"
    /\ uiError' = "Connection error. Please try again."
    /\ StopSessionBody
    /\ UNCHANGED <<pollerVars, adapterVars, codecVars, connectPc, onopenPc, handleReturned, playbackVars, startPc, mounted>>

\* line 366 and LiveConversation.tsx 44-47: onclose -> handleClose
onclose ==
    /\ connectPc \in {"opened", "resolved"}
    /\ remoteSession # "closed"
    /\ remoteSession' = "closed"
    /\ isSessionActive' = FALSE
    /\ UNCHANGED <<pollerVars, adapterVars, codecVars, connectPc, onopenPc, captureVars, outputAudioContext, released,
                   handleReturned, closeCalls, playbackVars, sessionRef, startPc,
                   uiError, mounted>>

\* ---------------------------------------------------------------- capture
\* lines 323-337: the script processor delivers a block of input samples; the
\* handler packs it and chains the send on sessionPromise: the send runs at
\* once when the promise is already resolved, and waits for it otherwise
onaudioprocess ==
    /\ scriptProcessor = "connected"
    /\ inputAudioContext = "running"
    /\ pendingSends + forwarded < MaxCaptured
    /\ IF connectPc = "resolved"
       THEN /\ forwarded' = forwarded + 1
            /\ forwardedClosed' = forwardedClosed + (IF closeCalls > 0 THEN 1 ELSE 0)
            /\ UNCHANGED pendingSends
       ELSE /\ pendingSends' = pendingSends + 1
            /\ UNCHANGED <<forwarded, forwardedClosed>>
    /\ UNCHANGED <<pollerVars, adapterVars, codecVars, connectPc, onopenPc, scriptProcessor, inputAudioContext,
                   audioStream, pipelinesCreated, connects, outputAudioContext, remoteSession,
                   released, handleReturned, closeCalls, playbackVars, uiVars>>

\* --------------------------------------------------------------- playback
\* line 347
ClampToNow(nst, now) == Max(nst, now)

\* line 354
AdvanceNextStartTime(nst, duration) == nst + duration

\* the loop of lines 358-361 losing its place when it deletes: one source only
StoppedByInterruptFirstOnly(set) == IF set = {} THEN {} ELSE {CHOOSE x \in set : TRUE}

\* lines 358-361: the sources the for-of loop stops and deletes
StoppedByInterrupt(set) == set

\* line 362
ResetNextStartTime == 0

\* AudioBufferSourceNode.start(when): a start time already past plays at once
ActualBegin(id) == Max(srcInfo[id].when, srcInfo[id].startedAt)
ActualEnd(id) == ActualBegin(id) + srcInfo[id].duration

Started == DOMAIN srcInfo

\* interruption signals delivered so far (handled, or waiting behind a decode)
InterruptsDelivered == interrupts + Cardinality({h \in inflight : h.interrupted})

\* lines 357-363 applied to the source set set and cursor nst
HandleInterrupted(interrupted, set, nst) ==
    IF interrupted
    THEN /\ stopped' = stopped \cup StoppedByInterrupt(set)
         /\ sources' = set \ StoppedByInterrupt(set)
         /\ nextStartTime' = ResetNextStartTime
         /\ interrupts' = interrupts + 1
    ELSE /\ sources' = set
         /\ nextStartTime' = nst
         /\ UNCHANGED <<stopped, interrupts>>

\* lines 342-348 (and 357-363 for a message without audio): the SDK delivers a
\* message; the handler runs up to its await of decodeAudioData
onmessage ==
    /\ connectPc \in {"opened", "resolved"}
    /\ remoteSession # "closed"
    /\ \E hasAudio \in BOOLEAN, interrupted \in BOOLEAN, d \in Durations :
        /\ hasAudio \/ interrupted
        /\ interrupted => InterruptsDelivered < MaxInterrupts
        /\ IF hasAudio
           THEN /\ nCreated < MaxFrames
                /\ nextStartTime' = ClampToNow(nextStartTime, currentTime)
                /\ nCreated' = nCreated + 1
                /\ inflight' = inflight \cup
                      {[id |-> nCreated + 1, duration |-> d, interrupted |-> interrupted,
                        epoch |-> interrupts, now |-> currentTime]}
                /\ UNCHANGED <<sources, stopped, interrupts>>
           ELSE /\ d = 1
                /\ HandleInterrupted(interrupted, sources, nextStartTime)
                /\ UNCHANGED <<nCreated, inflight>>
    /\ UNCHANGED <<pollerVars, adapterVars, codecVars, connectPc, onopenPc, captureVars, outputAudioContext,
                   remoteSession, released, handleReturned, closeCalls, currentTime,
                   srcInfo, lastScheduled, uiVars>>

\* lines 348-363: decodeAudioData has resolved, the handler resumes: the source
\* is created, started at nextStartTime and added to the set; then the
\* interruption signal of the same message, if any, is handled
decodeResumed ==
    /\ \E h \in inflight :
        /\ inflight' = inflight \ {h}
        /\ srcInfo' = [i \in Started \cup {h.id} |->
              IF i = h.id
              THEN [when |-> nextStartTime, startedAt |-> currentTime,
                    duration |-> h.duration, now |-> h.now, epoch |-> h.epoch,
                    schedEpoch |-> interrupts, prev |-> lastScheduled,
                    afterClose |-> closeCalls > 0]
              ELSE srcInfo[i]]
        /\ lastScheduled' = h.id
        /\ HandleInterrupted(h.interrupted, sources \cup {h.id},
                             AdvanceNextStartTime(nextStartTime, h.duration))
    /\ UNCHANGED <<pollerVars, adapterVars, codecVars, connectPc, onopenPc, captureVars, outputAudioContext,
                   remoteSession, released, handleReturned, closeCalls, currentTime,
                   nCreated, uiVars>>

\* line 352: a source has played to its end, its 'ended' listener runs
ended ==
    /\ outputAudioContext = "running"
    /\ \E id \in sources :
        /\ currentTime >= ActualEnd(id)
        /\ sources' = sources \ {id}
    /\ UNCHANGED <<pollerVars, adapterVars, codecVars, connectPc, onopenPc, captureVars, outputAudioContext,
                   remoteSession, released, handleReturned, closeCalls, nextStartTime,
                   inflight, currentTime, srcInfo, nCreated, lastScheduled, stopped,
                   interrupts, uiVars>>

\* outputAudioContext.currentTime advances while the context runs
Tick ==
    /\ outputAudioContext = "running"
    /\ currentTime < MaxTime
    /\ currentTime' = currentTime + 1
    /\ UNCHANGED <<pollerVars, adapterVars, codecVars, connectPc, onopenPc, captureVars, outputAudioContext,
                   remoteSession, released, handleReturned, closeCalls, nextStartTime,
                   sources, inflight, srcInfo, nCreated, lastScheduled, stopped,
                   interrupts, uiVars>>

(***************************************************************************)
(*                      THE SINGLE-REQUEST ADAPTERS                        *)
(***************************************************************************)

MaxInvocations == 2

Groundings == {"none", "search", "maps", "auto"}

\* line 109
NeedsLocation(g) == g = "maps" \/ g = "auto"

\* generateImage, editImage, analyzeImage, analyzeVideo, transcribeAudio and
\* generateSpeech: one awaited request each
SimpleAdapters == {"generateImage", "editImage", "analyzeImage", "analyzeVideo",
                   "transcribeAudio", "generateSpeech"}

\* what the adapter throws when the response lacks the part it reads
\* (lines 195 and 428); the others return what the response holds
MissingPartError(kind) ==
    CASE kind = "editImage" -> "No edited image found in response."
      [] kind = "generateSpeech" -> "No audio data received."
      [] OTHER -> Null

AdapterSettled == adapterPc \in {"idle", "resolved", "rejected"}

\* lines 95-117 and 118-121: the caller asks the generator for its first
\* value; with maps or auto grounding the location is read first, otherwise
\* the stream is opened at once (lines 134-146)
generateChatResponseStream ==
    /\ AdapterSettled
    /\ invocations < MaxInvocations
    /\ invocations' = invocations + 1
    /\ adapterKind' = "generateChatResponseStream"
    /\ adapterError' = Null
    /\ \E g \in Groundings :
        /\ grounding' = g
        /\ IF NeedsLocation(g)
           THEN /\ adapterPc' = "locating"
                /\ locationReads' = 1
                /\ requests' = 0
                /\ requestLatLng' = Null
           ELSE /\ adapterPc' = "requesting"
                /\ locationReads' = 0
                /\ requests' = 1
                /\ requestLatLng' = "absent"
    /\ UNCHANGED <<pollerVars, liveVars, uiVars, codecVars>>

\* lines 120-129: getCurrentPosition succeeds, retrievalConfig is set, and
\* lines 134-146 open the stream
LocationResolved ==
    /\ adapterPc = "locating"
    /\ adapterPc' = "requesting"
    /\ requests' = requests + 1
    /\ requestLatLng' = "present"
    /\ UNCHANGED <<pollerVars, liveVars, uiVars, codecVars, adapterKind, grounding,
                   locationReads, adapterError, invocations>>

\* the catch of lines 130-132 forgotten: the location error reaches the caller
LocationRejectedThrows ==
    /\ adapterPc = "locating"
    /\ adapterPc' = "rejected"
    /\ adapterError' = "location unavailable"
    /\ UNCHANGED <<pollerVars, liveVars, uiVars, codecVars, adapterKind, grounding,
                   requests, requestLatLng, locationReads, invocations>>

\* lines 130-132: getCurrentPosition fails or its 5 second timeout expires;
\* the error is logged and lines 134-146 open the stream
LocationRejected ==
    /\ adapterPc = "locating"
    /\ adapterPc' = "requesting"
    /\ requests' = requests + 1
    /\ requestLatLng' = "absent"
    /\ UNCHANGED <<pollerVars, liveVars, uiVars, codecVars, adapterKind, grounding,
                   locationReads, adapterError, invocations>>

\* an adapter that awaits one request (after reading its file, where it has
\* one): lines 159-167, 174-188, 199-211, 278-290, 390-403, 408-419
InvokeAdapter(kind) ==
    /\ AdapterSettled
    /\ invocations < MaxInvocations
    /\ invocations' = invocations + 1
    /\ adapterKind' = kind
    /\ adapterPc' = "requesting"
    /\ requests' = 1
    /\ adapterError' = Null
    /\ grounding' = Null
    /\ locationReads' = 0
    /\ requestLatLng' = Null
    /\ UNCHANGED <<pollerVars, liveVars, uiVars, codecVars>>

generateImage == InvokeAdapter("generateImage")
editImage == InvokeAdapter("editImage")
analyzeImage == InvokeAdapter("analyzeImage")
analyzeVideo == InvokeAdapter("analyzeVideo")
transcribeAudio == InvokeAdapter("transcribeAudio")
generateSpeech == InvokeAdapter("generateSpeech")

\* the request resolves: the chat adapter goes on to read the stream (line
\* 148), the others return, or throw when the response lacks their part
RequestResolved ==
    /\ adapterPc = "requesting"
    /\ \E hasPart \in BOOLEAN :
        IF adapterKind = "generateChatResponseStream"
        THEN adapterPc' = "streaming" /\ UNCHANGED adapterError
        ELSE IF hasPart \/ MissingPartError(adapterKind) = Null
        THEN adapterPc' = "resolved" /\ UNCHANGED adapterError
        ELSE adapterPc' = "rejected" /\ adapterError' = MissingPartError(adapterKind)
    /\ UNCHANGED <<pollerVars, liveVars, uiVars, codecVars, adapterKind, grounding,
                   requests, locationReads, requestLatLng, invocations>>

\* a failed request issued again instead of being raised to the caller
RequestRejectedRetried ==
    /\ adapterPc = "requesting"
    /\ requests < MaxInvocations
    /\ requests' = requests + 1
    /\ UNCHANGED <<pollerVars, liveVars, uiVars, codecVars, adapterKind, adapterPc,
                   grounding, locationReads, requestLatLng, adapterError, invocations>>

\* the awaited request rejects: the adapter has no catch, the error reaches
\* the caller
RequestRejected ==
    /\ adapterPc = "requesting"
    /\ adapterPc' = "rejected"
    /\ \E msg \in ErrorMessages : adapterError' = msg
    /\ UNCHANGED <<pollerVars, liveVars, uiVars, codecVars, adapterKind, grounding,
                   requests, locationReads, requestLatLng, invocations>>

\* lines 148-153: the stream ends, the generator returns
StreamEnded ==
    /\ adapterPc = "streaming"
    /\ adapterPc' = "resolved"
    /\ UNCHANGED <<pollerVars, liveVars, uiVars, codecVars, adapterKind, grounding,
                   requests, locationReads, requestLatLng, adapterError, invocations>>

\* lines 148-153: reading the stream throws
StreamFailed ==
    /\ adapterPc = "streaming"
    /\ adapterPc' = "rejected"
    /\ \E msg \in ErrorMessages : adapterError' = msg
    /\ UNCHANGED <<pollerVars, liveVars, uiVars, codecVars, adapterKind, grounding,
                   requests, locationReads, requestLatLng, invocations>>

AdapterInit ==
    /\ adapterKind = Null
    /\ adapterPc = "idle"
    /\ grounding = Null
    /\ requests = 0
    /\ locationReads = 0
    /\ requestLatLng = Null
    /\ adapterError = Null
    /\ invocations = 0

AdapterNext ==
    \/ generateChatResponseStream
    \/ LocationResolved
    \/ LocationRejected
    \/ generateImage
    \/ editImage
    \/ analyzeImage
    \/ analyzeVideo
    \/ transcribeAudio
    \/ generateSpeech
    \/ RequestResolved
    \/ RequestRejected
    \/ StreamEnded
    \/ StreamFailed

(***************************************************************************)
(*                               THE CODEC                                 *)
(***************************************************************************)

\* bounds: the byte sequences handed to encode and pcmToWav are all those of
\* at most MaxBytes bytes over ByteSamples, and one of each length from
\* LongLength - 2 to LongLength
MaxBytes == 4
LongLength == 221

ByteSamples == {0, 1, 127, 128, 255}

\* a Uint8Array element assignment keeps the low 8 bits (lines 13 and 70-82)
ToUint8(n) == n % 256

\* String.fromCharCode (line 23): the code unit of the value
FromCharCode(n) == n % 65536

\* the base64 alphabet is modelled by digit values 0..63; Pad is '='
Pad == 64

\* a result not computed yet
Unset == <<-1>>

\* window.btoa on a string of code units at most 255: digit k of the output
\* comes from the group of three code units (k - 1) \div 4; a group cut short
\* by the end of the string is filled with '='
btoa(str) ==
    [k \in 1..(4 * ((Len(str) + 2) \div 3)) |->
        LET g == 3 * ((k - 1) \div 4)
            c1 == str[g + 1]
            c2 == IF g + 2 <= Len(str) THEN str[g + 2] ELSE 0
            c3 == IF g + 3 <= Len(str) THEN str[g + 3] ELSE 0
        IN  CASE (k - 1) % 4 = 0 -> c1 \div 4
              [] (k - 1) % 4 = 1 -> (c1 % 4) * 16 + c2 \div 16
              [] (k - 1) % 4 = 2 -> IF g + 2 > Len(str) THEN Pad
                                    ELSE (c2 % 16) * 4 + c3 \div 64
              [] OTHER -> IF g + 3 > Len(str) THEN Pad ELSE c3 % 64]

\* atob, step 1: with a length that is a multiple of 4, one or two trailing
\* '=' are removed
StripPadding(txt) ==
    IF Len(txt) > 0 /\ Len(txt) % 4 = 0 /\ txt[Len(txt)] = Pad
    THEN IF txt[Len(txt) - 1] = Pad
         THEN SubSeq(txt, 1, Len(txt) - 2)
         ELSE SubSeq(txt, 1, Len(txt) - 1)
    ELSE txt

\* atob, step 2: byte j of the output comes from the group of four digits
\* (j - 1) \div 3; two or three digits left at the end give one or two
\* bytes, the spare bits being dropped
DecodeDigits(d) ==
    [j \in 1..((Len(d) * 6) \div 8) |->
        LET g == 4 * ((j - 1) \div 3)
        IN  CASE (j - 1) % 3 = 0 -> d[g + 1] * 4 + d[g + 2] \div 16
              [] (j - 1) % 3 = 1 -> (d[g + 2] % 16) * 16 + d[g + 3] \div 4
              [] OTHER -> (d[g + 3] % 4) * 64 + d[g + 4]]

\* the exception atob throws, as a result
InvalidCharacterError == <<-2>>

\* an atob that takes '=' for the digit 0 instead of removing it
atobPaddingAsZero(txt) ==
    DecodeDigits([i \in 1..Len(txt) |-> IF txt[i] = Pad THEN 0 ELSE txt[i]])

\* window.atob
atob(txt) ==
    IF \/ Len(StripPadding(txt)) % 4 = 1
       \/ \E i \in 1..Len(StripPadding(txt)) : StripPadding(txt)[i] = Pad
    THEN InvalidCharacterError
    ELSE DecodeDigits(StripPadding(txt))

\* lines 19-26
encode(bytes) == btoa([i \in 1..Len(bytes) |-> FromCharCode(bytes[i])])

\* lines 8-16
decode(text) ==
    IF atob(text) = InvalidCharacterError
    THEN InvalidCharacterError
    ELSE [i \in 1..Len(atob(text)) |-> ToUint8(atob(text)[i])]

\* charCodeAt of the characters writeString is given (lines 49-53)
CharCode == [c \in {"R", "I", "F", "W", "A", "V", "E", "f", "m", "t", " ", "d", "a"} |->
    CASE c = "R" -> 82 [] c = "I" -> 73 [] c = "F" -> 70 [] c = "W" -> 87
      [] c = "A" -> 65 [] c = "V" -> 86 [] c = "E" -> 69 [] c = "f" -> 102
      [] c = "m" -> 109 [] c = "t" -> 116 [] c = " " -> 32 [] c = "d" -> 100
      [] c = "a" -> 97]

\* lines 49-53: view.setUint8(offset + i, string.charCodeAt(i))
writeString(chars) == [i \in 1..Len(chars) |-> ToUint8(CharCode[chars[i]])]

\* setUint16(offset, value, true)
Uint16LE(n) == <<n % 256, (n \div 256) % 256>>

\* the littleEndian argument forgotten
Uint32BE(n) ==
    <<(n \div 16777216) % 256, (n \div 65536) % 256, (n \div 256) % 256, n % 256>>

\* setUint32(offset, value, true)
Uint32LE(n) ==
    <<n % 256, (n \div 256) % 256, (n \div 65536) % 256, (n \div 16777216) % 256>>

\* lines 56-84: the 44 header bytes, then the samples
pcmToWav(pcm, sampleRate, numChannels, bitsPerSample) ==
    writeString(<<"R", "I", "F", "F">>)
    \o Uint32LE(36 + Len(pcm))
    \o writeString(<<"W", "A", "V", "E">>)
    \o writeString(<<"f", "m", "t", " ">>)
    \o Uint32LE(16)
    \o Uint16LE(1)
    \o Uint16LE(numChannels)
    \o Uint32LE(sampleRate)
    \o Uint32LE(sampleRate * numChannels * (bitsPerSample \div 8))
    \o Uint16LE(numChannels * (bitsPerSample \div 8))
    \o Uint16LE(bitsPerSample)
    \o writeString(<<"d", "a", "t", "a">>)
    \o Uint32LE(Len(pcm))
    \o pcm

\* line 424: the arguments generateSpeech passes
TtsSampleRate == 24000
TtsChannels == 1
TtsBitsPerSample == 16

ShortInputs == UNION {[1..n -> ByteSamples] : n \in 0..MaxBytes}

LongInputs == {[i \in 1..n |-> (i * 7 + n) % 256] : n \in (LongLength - 2)..LongLength}

\* encode is applied to the input
CallEncode ==
    /\ base64 = Unset
    /\ base64' = encode(pcmData)
    /\ UNCHANGED <<pollerVars, liveVars, uiVars, adapterVars, pcmData, decoded, wav, pcmVars, screenVars>>

\* decode is applied to what encode produced
CallDecode ==
    /\ base64 # Unset
    /\ decoded = Unset
    /\ decoded' = decode(base64)
    /\ UNCHANGED <<pollerVars, liveVars, uiVars, adapterVars, pcmData, base64, wav, pcmVars, screenVars>>

\* line 424
CallPcmToWav ==
    /\ wav = Unset
    /\ wav' = pcmToWav(pcmData, TtsSampleRate, TtsChannels, TtsBitsPerSample)
    /\ UNCHANGED <<pollerVars, liveVars, uiVars, adapterVars, pcmData, base64, decoded, pcmVars, screenVars>>

\* ------------------------------------------------------- PCM conversions
\* bounds: blocks of at most MaxBlock samples, each a multiple of
\* 1 / SampleSteps between -1.0 and +1.0
MaxBlock == 2
SampleSteps == 4

\* the value k-th element (from 0) of new Int16Array(data.buffer): two bytes,
\* little-endian, two's complement
Int16At(data, k) ==
    LET u == data[2 * k + 1] + 256 * data[2 * k + 2]
    IN  IF u >= 32768 THEN u - 65536 ELSE u

\* line 42: a sample divided by 32768.0, as the fraction <<numerator, denominator>>
Normalized(sample) == <<sample, 32768>>

NoBuffer == [error |-> "unset", length |-> 0, channelData |-> <<>>]

Thrown(name) == [error |-> name, length |-> 0, channelData |-> <<>>]

\* lines 29-46. new Int16Array(buffer) throws a RangeError on an odd byte
\* length; createBuffer takes its length argument as an unsigned long (the
\* fraction of frameCount is dropped) and throws NotSupportedError on 0; the
\* writes of line 42 beyond the buffer's length have no effect
decodeAudioData(data, channels) ==
    IF Len(data) % 2 # 0
    THEN Thrown("RangeError")
    ELSE IF (Len(data) \div 2) \div channels = 0
    THEN Thrown("NotSupportedError")
    ELSE [error |-> "none",
          length |-> (Len(data) \div 2) \div channels,
          channelData |->
              [channel \in 1..channels |->
                  [i \in 1..((Len(data) \div 2) \div channels) |->
                      Normalized(Int16At(data, (i - 1) * channels + (channel - 1)))]]]

\* conversion of a number to an Int16Array element: the fraction is dropped
\* (towards zero) and the integer taken modulo 2^16 into -32768..32767.
\* The number is num / den.
ToInt16(num, den) ==
    LET t == IF num >= 0 THEN num \div den ELSE -((-num) \div den)
    IN  ((t + 32768) % 65536) - 32768

\* line 328: int16[i] = inputData[i] * 32768, for the sample k / SampleSteps
SampleToInt16(k) == ToInt16(k * 32768, SampleSteps)

\* line 326 before the loop has run (no int16 value lies outside -32768..32767)
NotFilled == <<65536>>

ChannelCounts == {1, 2}

Samples == (-SampleSteps)..SampleSteps

Blocks == UNION {[1..n -> Samples] : n \in 1..MaxBlock}

\* decodeAudioData is applied to the input (line 348 passes 1 channel)
CallDecodeAudioData ==
    /\ audioBuffer = NoBuffer
    /\ audioBuffer' = decodeAudioData(pcmData, decodeChannels)
    /\ UNCHANGED <<pollerVars, liveVars, uiVars, adapterVars, pcmData, base64, decoded, wav,
                   decodeChannels, inputData, int16, screenVars>>

\* lines 324-329: the loop that fills int16 from the input block
FillInt16 ==
    /\ int16 = NotFilled
    /\ int16' = [i \in 1..Len(inputData) |-> SampleToInt16(inputData[i])]
    /\ UNCHANGED <<pollerVars, liveVars, uiVars, adapterVars, pcmData, base64, decoded, wav,
                   decodeChannels, audioBuffer, inputData, screenVars>>

(***************************************************************************)
(*                          THE CHAT SCREEN                                *)
(***************************************************************************)

\* bound: chunks one stream yields
MaxChunks == 3

\* a value that is undefined
Undefined == <<-1>>

\* chunk.text: a fragment of text; <<>> stands for an empty or missing text
Fragments == {<<>>, <<"a">>, <<"b">>}

\* groundingMetadata.groundingChunks: the citations of a chunk, in API order
GroundingLists == {<<1, 2>>, <<2, 1>>, <<3>>}

\* the chunks generateContentStream can deliver
ApiChunks == [text : Fragments, groundingChunks : {Undefined} \cup GroundingLists]

\* geminiService.ts 148-153: what generateChatResponseStream yields for a chunk
YieldedChunk(chunk) == [text |-> chunk.text, groundingChunks |-> chunk.groundingChunks]

NoChunk == [text |-> <<>>, groundingChunks |-> Undefined]

\* Chat.tsx 34-44: the update function of a chunk
ChunkUpdater(chunk) == [kind |-> "chunk", chunk |-> chunk]

\* Chat.tsx 48-52: the update function that attaches the citations
AttachUpdater == [kind |-> "attach", chunk |-> NoChunk]

\* Chat.tsx 58-63: the update function of the catch block
ErrorUpdater == [kind |-> "error", chunk |-> NoChunk]

ErrorText == <<"Sorry, I encountered an error">>

\* what is read and written by the update functions: the last message and the
\* local variable finalGroundingChunks they close over
Closure(text, groundingChunks, final) ==
    [text |-> text, groundingChunks |-> groundingChunks, final |-> final]

\* one update function run on st
RunUpdater(u, st) ==
    CASE u.kind = "chunk" ->
            Closure(IF u.chunk.text # <<>> THEN st.text \o u.chunk.text ELSE st.text,
                    st.groundingChunks,
                    IF u.chunk.groundingChunks # Undefined
                    THEN u.chunk.groundingChunks ELSE st.final)
      [] u.kind = "attach" -> Closure(st.text, st.final, st.final)
      [] OTHER -> Closure(ErrorText, st.groundingChunks, st.final)

\* React running a queue of update functions in the order they were queued
RECURSIVE RunUpdaters(_, _)
RunUpdaters(queue, st) ==
    IF queue = <<>> THEN st ELSE RunUpdaters(Tail(queue), RunUpdater(Head(queue), st))

CurrentClosure == Closure(messageText, messageGrounding, finalGroundingChunks)

Written(st) ==
    /\ messageText' = st.text
    /\ messageGrounding' = st.groundingChunks
    /\ finalGroundingChunks' = st.final

\* setMessages(u): React runs the update function at once when the component
\* has no update pending and it chooses to, and otherwise queues it for the
\* next render
setMessages(u, atOnce) ==
    IF atOnce /\ updateQueue = <<>>
    THEN Written(RunUpdater(u, CurrentClosure)) /\ UNCHANGED updateQueue
    ELSE /\ updateQueue' = Append(updateQueue, u)
         /\ UNCHANGED <<messageText, messageGrounding, finalGroundingChunks>>

\* Chat.tsx 21-31: Send is clicked; the user message and an empty model
\* message are added and the stream is requested
handleSend ==
    /\ chatPc = "idle"
    /\ ~chatIsLoading
    /\ chatPc' = "streaming"
    /\ chatIsLoading' = TRUE
    /\ messageText' = <<>>
    /\ messageGrounding' = Undefined
    /\ finalGroundingChunks' = Undefined
    /\ UNCHANGED <<pollerVars, liveVars, uiVars, adapterVars, pcmData, base64, decoded, wav,
                   pcmVars, chatChunks, updateQueue, recorderVars>>

\* Chat.tsx 33-44: the stream yields a chunk, the loop body hands its update
\* function to setMessages
ChunkYielded ==
    /\ chatPc = "streaming"
    /\ Len(chatChunks) < MaxChunks
    /\ \E chunk \in ApiChunks, atOnce \in BOOLEAN :
        /\ chatChunks' = Append(chatChunks, YieldedChunk(chunk))
        /\ setMessages(ChunkUpdater(YieldedChunk(chunk)), atOnce)
    /\ UNCHANGED <<pollerVars, liveVars, uiVars, adapterVars, pcmData, base64, decoded, wav,
                   pcmVars, chatPc, chatIsLoading, recorderVars>>

\* React renders the component: the queued update functions run in order
Render ==
    /\ updateQueue # <<>>
    /\ Written(RunUpdaters(updateQueue, CurrentClosure))
    /\ updateQueue' = <<>>
    /\ UNCHANGED <<pollerVars, liveVars, uiVars, adapterVars, pcmData, base64, decoded, wav,
                   pcmVars, chatPc, chatIsLoading, chatChunks, recorderVars>>

\* Chat.tsx 47-53 and 64-66: the stream is exhausted, the loop is left; the
\* citations are attached when finalGroundingChunks is set by now
ChatStreamEnded ==
    /\ chatPc = "streaming"
    /\ chatPc' = "ended"
    /\ chatIsLoading' = FALSE
    /\ IF finalGroundingChunks # Undefined
       THEN \E atOnce \in BOOLEAN : setMessages(AttachUpdater, atOnce)
       ELSE UNCHANGED <<updateQueue, messageText, messageGrounding, finalGroundingChunks>>
    /\ UNCHANGED <<pollerVars, liveVars, uiVars, adapterVars, pcmData, base64, decoded, wav,
                   pcmVars, chatChunks, recorderVars>>

\* Chat.tsx 55-66: the stream throws, the catch block replaces the text
ChatStreamFailed ==
    /\ chatPc = "streaming"
    /\ chatPc' = "failed"
    /\ chatIsLoading' = FALSE
    /\ \E atOnce \in BOOLEAN : setMessages(ErrorUpdater, atOnce)
    /\ UNCHANGED <<pollerVars, liveVars, uiVars, adapterVars, pcmData, base64, decoded, wav,
                   pcmVars, chatChunks, recorderVars>>

ChatIdle ==
    /\ chatPc = "idle"
    /\ chatIsLoading = FALSE
    /\ chatChunks = <<>>
    /\ updateQueue = <<>>
    /\ messageText = <<>>
    /\ messageGrounding = Undefined
    /\ finalGroundingChunks = Undefined

ChatNext ==
    \/ handleSend
    \/ ChunkYielded
    \/ Render
    \/ ChatStreamEnded
    \/ ChatStreamFailed

(***************************************************************************)
(*                 THE PROMPT RECORDING OF THE VIDEO SCREEN                *)
(***************************************************************************)

\* bound: recordings started
MaxRecordings == 2

\* TextToSpeech.tsx 189-198: the microphone button is clicked while nothing is
\* recorded and getUserMedia resolves: a recorder is created on the stream
\* and started without a timeslice. The events of an earlier stop have been
\* fired by the time of the click.
handleStartRecording ==
    /\ ~isRecording
    /\ recorderTasks = <<>>
    /\ recordings < MaxRecordings
    /\ recordings' = recordings + 1
    /\ mediaRecorder' = "recording"
    /\ micTrack' = "live"
    /\ audioChunks' = <<>>
    /\ isRecording' = TRUE
    /\ UNCHANGED <<pollerVars, liveVars, uiVars, adapterVars, pcmData, base64, decoded, wav,
                   pcmVars, chatVars, recorderTasks, isTranscribing, recorderError,
                   pendingTranscriptions, transcribeCalls, trackStopCalls, handlerFailures>>

\* TextToSpeech.tsx 199-202: getUserMedia rejects
MicAccessDenied ==
    /\ ~isRecording
    /\ recorderTasks = <<>>
    /\ recordings < MaxRecordings
    /\ recorderError' = "Microphone access denied."
    /\ UNCHANGED <<pollerVars, liveVars, uiVars, adapterVars, pcmData, base64, decoded, wav,
                   pcmVars, chatVars, mediaRecorder, micTrack, audioChunks, recorderTasks,
                   isRecording, isTranscribing, pendingTranscriptions, transcribeCalls,
                   trackStopCalls, handlerFailures, recordings>>

\* MediaRecorder.stop() on a recorder that is already inactive: it returns
\* under the current Recommendation and throws InvalidStateError under the
\* earlier drafts, which engines implemented
StopOnInactive == {"returns", "throws"}

\* TextToSpeech.tsx 204-222 up to the await of line 215: the body of
\* handleStopRecording. A recorder started without a timeslice hands over
\* its data in the dataavailable event that stop() queues ahead of the stop
\* event.
StopRecordingBody(tasks) ==
    IF mediaRecorder = Null
    THEN /\ recorderTasks' = tasks
         /\ UNCHANGED <<mediaRecorder, micTrack, isRecording, isTranscribing,
                        pendingTranscriptions, transcribeCalls, trackStopCalls,
                        handlerFailures>>
    ELSE \E outcome \in StopOnInactive :
            IF mediaRecorder = "inactive" /\ outcome = "throws"
            THEN /\ handlerFailures' = handlerFailures + 1
                 /\ recorderTasks' = tasks
                 /\ UNCHANGED <<mediaRecorder, micTrack, isRecording, isTranscribing,
                                pendingTranscriptions, transcribeCalls, trackStopCalls>>
            ELSE /\ recorderTasks' = IF mediaRecorder = "recording"
                                     THEN tasks \o <<"dataavailable", "stop">>
                                     ELSE tasks
                 /\ mediaRecorder' = "inactive"
                 /\ micTrack' = "ended"
                 /\ trackStopCalls' = trackStopCalls + 1
                 /\ isRecording' = FALSE
                 /\ isTranscribing' = TRUE
                 /\ transcribeCalls' = Append(transcribeCalls, audioChunks)
                 /\ pendingTranscriptions' = pendingTranscriptions + 1
                 /\ UNCHANGED handlerFailures

\* TextToSpeech.tsx 291: the microphone button is clicked while recording
handleStopRecording ==
    /\ isRecording
    /\ StopRecordingBody(recorderTasks)
    /\ UNCHANGED <<pollerVars, liveVars, uiVars, adapterVars, pcmData, base64, decoded, wav,
                   pcmVars, chatVars, audioChunks, recorderError, recordings>>

\* TextToSpeech.tsx 193: the recorder fires dataavailable, the handler pushes
\* the data
ondataavailable ==
    /\ recorderTasks # <<>>
    /\ Head(recorderTasks) = "dataavailable"
    /\ recorderTasks' = Tail(recorderTasks)
    /\ audioChunks' = Append(audioChunks, recordings)
    /\ UNCHANGED <<pollerVars, liveVars, uiVars, adapterVars, pcmData, base64, decoded, wav,
                   pcmVars, chatVars, mediaRecorder, micTrack, isRecording, isTranscribing,
                   recorderError, pendingTranscriptions, transcribeCalls, trackStopCalls,
                   handlerFailures, recordings>>

\* TextToSpeech.tsx 194: the recorder fires stop; its onstop handler is
\* handleStopRecording
onstop ==
    /\ recorderTasks # <<>>
    /\ Head(recorderTasks) = "stop"
    /\ StopRecordingBody(Tail(recorderTasks))
    /\ UNCHANGED <<pollerVars, liveVars, uiVars, adapterVars, pcmData, base64, decoded, wav,
                   pcmVars, chatVars, audioChunks, recorderError, recordings>>

\* TextToSpeech.tsx 215-216 and 220-222: transcribeAudio resolves
TranscriptionResolved ==
    /\ pendingTranscriptions > 0
    /\ pendingTranscriptions' = pendingTranscriptions - 1
    /\ isTranscribing' = FALSE
    /\ UNCHANGED <<pollerVars, liveVars, uiVars, adapterVars, pcmData, base64, decoded, wav,
                   pcmVars, chatVars, mediaRecorder, micTrack, audioChunks, recorderTasks,
                   isRecording, recorderError, transcribeCalls, trackStopCalls,
                   handlerFailures, recordings>>

\* TextToSpeech.tsx 217-222: transcribeAudio rejects
TranscriptionRejected ==
    /\ pendingTranscriptions > 0
    /\ pendingTranscriptions' = pendingTranscriptions - 1
    /\ isTranscribing' = FALSE
    /\ recorderError' = "Transcription failed"
    /\ UNCHANGED <<pollerVars, liveVars, uiVars, adapterVars, pcmData, base64, decoded, wav,
                   pcmVars, chatVars, mediaRecorder, micTrack, audioChunks, recorderTasks,
                   isRecording, transcribeCalls, trackStopCalls, handlerFailures,
                   recordings>>

RecorderIdle ==
    /\ mediaRecorder = Null
    /\ micTrack = Null
    /\ audioChunks = <<>>
    /\ recorderTasks = <<>>
    /\ isRecording = FALSE
    /\ isTranscribing = FALSE
    /\ recorderError = Null
    /\ pendingTranscriptions = 0
    /\ transcribeCalls = <<>>
    /\ trackStopCalls = 0
    /\ handlerFailures = 0
    /\ recordings = 0

RecorderNext ==
    \/ handleStartRecording
    \/ MicAccessDenied
    \/ handleStopRecording
    \/ ondataavailable
    \/ onstop
    \/ TranscriptionResolved
    \/ TranscriptionRejected

ScreenIdle == ChatIdle /\ RecorderIdle

PcmIdle ==
    /\ decodeChannels = 1
    /\ audioBuffer = NoBuffer
    /\ inputData = <<>>
    /\ int16 = NotFilled

CodecIdle ==
    /\ pcmData = <<>>
    /\ base64 = Unset
    /\ decoded = Unset
    /\ wav = Unset

DecodeAudioInputs ==
    /\ pcmData \in ShortInputs \cup LongInputs
    /\ decodeChannels \in ChannelCounts
    /\ base64 = Unset
    /\ decoded = Unset
    /\ wav = Unset
    /\ audioBuffer = NoBuffer
    /\ inputData = <<>>
    /\ int16 = NotFilled
    /\ ScreenIdle

CaptureInputs ==
    /\ CodecIdle
    /\ decodeChannels = 1
    /\ audioBuffer = NoBuffer
    /\ inputData \in Blocks
    /\ int16 = NotFilled
    /\ ScreenIdle

CodecNext ==
    \/ CallEncode
    \/ CallDecode
    \/ CallPcmToWav

CodecInputs ==
    /\ pcmData \in ShortInputs \cup LongInputs
    /\ base64 = Unset
    /\ decoded = Unset
    /\ wav = Unset
    /\ PcmIdle
    /\ ScreenIdle

CodecInit == CodecIdle /\ PcmIdle /\ ScreenIdle

\* lines 307-312 before the call, and the component's initial state
\* (LiveConversation.tsx 7-12)
LiveInit ==
    /\ connectPc = "idle"
    /\ onopenPc = "idle"
    /\ scriptProcessor = Null
    /\ inputAudioContext = Null
    /\ audioStream = Null
    /\ outputAudioContext = Null
    /\ remoteSession = Null
    /\ released = [r \in ReleaseActions |-> 0]
    /\ handleReturned = FALSE
    /\ closeCalls = 0
    /\ pipelinesCreated = 0
    /\ pendingSends = 0
    /\ forwarded = 0
    /\ forwardedClosed = 0
    /\ connects = 0
    /\ nextStartTime = 0
    /\ sources = {}
    /\ inflight = {}
    /\ currentTime = 0
    /\ srcInfo = <<>>
    /\ nCreated = 0
    /\ lastScheduled = 0
    /\ stopped = {}
    /\ interrupts = 0
    /\ isSessionActive = FALSE
    /\ sessionRef = Null
    /\ startPc = "idle"
    /\ uiError = Null
    /\ mounted = TRUE

(***************************************************************************)
(*                           SPECIFICATIONS                                *)
(***************************************************************************)

Init == PollerInit /\ LiveInit /\ AdapterInit /\ CodecInit

PollerNext ==
    \/ HandleGenerate
    \/ GenerateVideosResolved
    \/ GenerateVideosRejected
    \/ ConsumerNext
    \/ ConsumerBreak
    \/ SleepElapsed
    \/ FetchResolved
    \/ FetchRejected

LiveNext ==
    \/ startSession
    \/ onopen
    \/ ConnectRejected
    \/ SessionResolved
    \/ MicGranted
    \/ MicDenied
    \/ onerror
    \/ onclose
    \/ stopSession
    \/ Unmount
    \/ close
    \/ onaudioprocess

PlaybackNext ==
    \/ onmessage
    \/ decodeResumed
    \/ ended
    \/ Tick

\* the live session once it is open: startSession, onopen, SessionResolved and
\* MicGranted have run, no message has been delivered yet
OpenSession ==
    /\ connectPc = "resolved"
    /\ onopenPc = "done"
    /\ scriptProcessor = "connected"
    /\ inputAudioContext = "running"
    /\ audioStream = "live"
    /\ outputAudioContext = "running"
    /\ remoteSession = "open"
    /\ released = [r \in ReleaseActions |-> 0]
    /\ handleReturned = TRUE
    /\ closeCalls = 0
    /\ pipelinesCreated = 1
    /\ pendingSends = 0
    /\ forwarded = 0
    /\ forwardedClosed = 0
    /\ connects = 1
    /\ nextStartTime = 0
    /\ sources = {}
    /\ inflight = {}
    /\ currentTime = 0
    /\ srcInfo = <<>>
    /\ nCreated = 0
    /\ lastScheduled = 0
    /\ stopped = {}
    /\ interrupts = 0
    /\ isSessionActive = TRUE
    /\ sessionRef = "session"
    /\ startPc = "started"
    /\ uiError = Null
    /\ mounted = TRUE

PlaybackInit == PollerInit /\ OpenSession /\ AdapterInit /\ CodecInit

\* the poller and its consumer
SpecPoller == Init /\ [][PollerNext]_vars

\* the poller with a consumer that keeps asking, timers that fire and
\* fetches that are answered; MaxPending bounds the answers "still pending"
SpecPollerFair == SpecPoller /\ WF_vars(PollerNext)

\* the life cycle of the live session and of the component that owns it
SpecLive == Init /\ [][LiveNext]_vars

\* the inbound-message path of an open live session
SpecPlayback == PlaybackInit /\ [][PlaybackNext]_vars

\* the live session resolved while onopen still waits for the microphone
\* (line 318): startSession, onopen and SessionResolved have run
OpenSessionMicPending ==
    /\ connectPc = "resolved"
    /\ onopenPc = "awaitingMic"
    /\ scriptProcessor = Null
    /\ inputAudioContext = Null
    /\ audioStream = Null
    /\ outputAudioContext = "running"
    /\ remoteSession = "open"
    /\ released = [r \in ReleaseActions |-> 0]
    /\ handleReturned = TRUE
    /\ closeCalls = 0
    /\ pipelinesCreated = 0
    /\ pendingSends = 0
    /\ forwarded = 0
    /\ forwardedClosed = 0
    /\ connects = 1
    /\ nextStartTime = 0
    /\ sources = {}
    /\ inflight = {}
    /\ currentTime = 0
    /\ srcInfo = <<>>
    /\ nCreated = 0
    /\ lastScheduled = 0
    /\ stopped = {}
    /\ interrupts = 0
    /\ isSessionActive = TRUE
    /\ sessionRef = "session"
    /\ startPc = "started"
    /\ uiError = Null
    /\ mounted = TRUE

ShutdownInit ==
    PollerInit /\ (OpenSession \/ OpenSessionMicPending) /\ AdapterInit /\ CodecInit

ShutdownNext ==
    \/ close
    \/ MicGranted
    \/ MicDenied
    \/ onaudioprocess
    \/ PlaybackNext

\* a resolved live session being closed while capture and inbound events
\* are still delivered
SpecShutdown == ShutdownInit /\ [][ShutdownNext]_vars

CodecCheckInit == PollerInit /\ LiveInit /\ AdapterInit /\ CodecInputs

\* encode, decode and pcmToWav applied to every input of the bounded sets
SpecCodec == CodecCheckInit /\ [][CodecNext]_vars

CursorNext ==
    \/ PlaybackNext
    \/ onaudioprocess
    \/ close
    \/ stopSession
    \/ onerror
    \/ onclose
    \/ Unmount

\* the open live session after its first audio frame: a frame of duration 1
\* was delivered at time 0 (onmessage, decodeResumed) and has played to its
\* end (Tick, ended)
OpenSessionAfterFirstFrame ==
    /\ connectPc = "resolved"
    /\ onopenPc = "done"
    /\ scriptProcessor = "connected"
    /\ inputAudioContext = "running"
    /\ audioStream = "live"
    /\ outputAudioContext = "running"
    /\ remoteSession = "open"
    /\ released = [r \in ReleaseActions |-> 0]
    /\ handleReturned = TRUE
    /\ closeCalls = 0
    /\ pipelinesCreated = 1
    /\ pendingSends = 0
    /\ forwarded = 0
    /\ forwardedClosed = 0
    /\ connects = 1
    /\ nextStartTime = 1
    /\ sources = {}
    /\ inflight = {}
    /\ currentTime = 1
    /\ srcInfo = <<[when |-> 0, startedAt |-> 0, duration |-> 1, now |-> 0, epoch |-> 0,
                     schedEpoch |-> 0, prev |-> 0, afterClose |-> FALSE]>>
    /\ nCreated = 1
    /\ lastScheduled = 1
    /\ stopped = {}
    /\ interrupts = 0
    /\ isSessionActive = TRUE
    /\ sessionRef = "session"
    /\ startPc = "started"
    /\ uiError = Null
    /\ mounted = TRUE

CursorInit == PollerInit /\ OpenSessionAfterFirstFrame /\ AdapterInit /\ CodecInit

\* an open live session with every callback that can run on it
SpecCursor == CursorInit /\ [][CursorNext]_vars

\* one message sent from the chat screen, React rendering when it likes
SpecChat == Init /\ [][ChatNext]_vars

\* prompt recordings of the video screen, started and stopped
SpecRecorder == Init /\ [][RecorderNext]_vars

DecodeAudioInit == PollerInit /\ LiveInit /\ AdapterInit /\ DecodeAudioInputs

\* decodeAudioData applied to every input of the bounded sets
SpecDecodeAudio == DecodeAudioInit /\ [][CallDecodeAudioData]_vars

CaptureInit == PollerInit /\ LiveInit /\ AdapterInit /\ CaptureInputs

\* the sample conversion of onaudioprocess applied to every block of the
\* bounded set
SpecCapture == CaptureInit /\ [][FillInt16]_vars

\* the adapters that issue one request
SpecAdapters == Init /\ [][AdapterNext]_vars

\* the requests that open a video generation and a live session
SubmitNext ==
    \/ HandleGenerate
    \/ GenerateVideosResolved
    \/ GenerateVideosRejected
    \/ startSession
    \/ onopen
    \/ ConnectRejected
    \/ SessionResolved

\* every remote request of the service
SpecRemoteCalls == Init /\ [][AdapterNext \/ PollerNext \/ SubmitNext]_vars

Next ==
    \/ PollerNext
    \/ LiveNext
    \/ PlaybackNext
    \/ AdapterNext
    \/ CodecNext
    \/ CallDecodeAudioData
    \/ FillInt16
    \/ ChatNext
    \/ RecorderNext

Spec == Init /\ [][Next]_vars

(***************************************************************************)
(*                       PROPERTIES OF THE POLLER                          *)
(***************************************************************************)

ProgressOf(seq) == [i \in 1..Len(seq) |-> seq[i].progress]

\* the last snapshot was yielded by line 230, 238 or 240
TerminalEmitted == yieldAt \in {"pollFailed", "final"}

IsTerminalIndex(i) == TerminalEmitted /\ i = Len(emitted)

ProcessingSnapshots ==
    Cardinality({i \in 1..Len(emitted) : emitted[i].message = "Processing video..."})

FetchesWith(outcomes) ==
    Cardinality({i \in 1..Len(fetches) : fetches[i] \in outcomes})

\* C1: the progress values of the emitted snapshots never decrease, and every
\* snapshot emitted before the terminal one has progress at most 95.
C1_ProgressMonotone ==
    /\ \A i \in 1..Len(emitted) - 1 : emitted[i].progress <= emitted[i + 1].progress
    /\ \A i \in 1..Len(emitted) : ~IsTerminalIndex(i) => emitted[i].progress <= ProgressCap

\* the cap was hit (two snapshots at 95 in a row) and the run ended with the
\* terminal snapshot
C1_Witness ==
    /\ TerminalEmitted
    /\ Len(emitted) >= 3
    /\ emitted[Len(emitted) - 2].progress = ProgressCap
    /\ emitted[Len(emitted) - 1].progress = ProgressCap
    /\ Last(emitted).progress = TerminalProgress

\* C2: a failed status fetch is the last fetch; the snapshot emitted for it, in
\* the same step, is the only one with progress 100, carries a non-null error
\* and no result, and no snapshot follows it.
C2_FetchErrorTerminal ==
    \A k \in 1..Len(fetches) :
        fetches[k] = "error" =>
            /\ k = Len(fetches)
            /\ Len(emitted) = k + 1
            /\ emitted[k + 1].progress = TerminalProgress
            /\ emitted[k + 1].error # Null
            /\ emitted[k + 1].videoUrl = Null
            /\ \A i \in 1..k : emitted[i].progress < TerminalProgress

\* a fetch failed after two successful ones, and the consumer asked for one
\* more value (the error message was empty): the generator returned
C2_Witness ==
    /\ Len(fetches) >= 3
    /\ Last(fetches) = "error"
    /\ Last(emitted).error = ""
    /\ genPc = "returned"

\* C3: once the operation has reported completion and the generator has gone
\* past its loop, the last snapshot has progress 100 and carries a result and
\* no error when a URI is present, an error and no result when none is; a
\* generator that returned after a completed operation has emitted it.
C3_CompletionTerminal ==
    /\ (genPc = "returned" /\ currentOperation.done /\ FetchesWith({"error"}) = 0)
          => yieldAt = "final"
    /\ yieldAt = "final" =>
          /\ currentOperation.done
          /\ Last(emitted).progress = TerminalProgress
          /\ Truthy(currentOperation.uri) =>
                Last(emitted).videoUrl # Null /\ Last(emitted).error = Null
          /\ ~Truthy(currentOperation.uri) =>
                Last(emitted).videoUrl = Null /\ Last(emitted).error # Null

\* both terminal outcomes of a completed operation: this one is the success
C3_Witness ==
    /\ yieldAt = "final"
    /\ Len(fetches) >= 1
    /\ Truthy(currentOperation.uri)
    /\ Last(emitted).videoUrl # Null

\* the run of the end-to-end scenario: the first status fetch finds the
\* operation pending, the second finds it complete with a result URI, and the
\* final snapshot has been emitted
C4_Scenario ==
    /\ fetches = <<"pending", "done">>
    /\ Truthy(currentOperation.uri)
    /\ yieldAt = "final"

\* C4 as stated: in the scenario the snapshots are 10, 15 and the final 100,
\* and an incremented non-terminal snapshot is emitted only for a fetch that
\* finds the operation still pending.
C4_Original ==
    C4_Scenario =>
        /\ ProgressOf(emitted) = <<InitialProgress, InitialProgress + ProgressStep,
                                   TerminalProgress>>
        /\ ProcessingSnapshots = FetchesWith({"pending"})

\* C4 as amended: in the scenario the snapshots are 10, 15, 20 and the final
\* 100 with a result and no error; an incremented non-terminal snapshot is
\* emitted for every status fetch that succeeds, the one that finds the
\* operation complete included.
C4_Amended ==
    /\ C4_Scenario =>
          /\ ProgressOf(emitted) = <<InitialProgress, InitialProgress + ProgressStep,
                                     InitialProgress + 2 * ProgressStep, TerminalProgress>>
          /\ Last(emitted).videoUrl # Null
          /\ Last(emitted).error = Null
    /\ ProcessingSnapshots = FetchesWith({"pending", "done"})

C4_Witness == C4_Scenario /\ genPc = "returned"

(***************************************************************************)
(*                     PROPERTIES OF THE LIVE SESSION                      *)
(***************************************************************************)

\* the microphone capture pipeline is feeding the script processor
PipelineActive ==
    scriptProcessor = "connected" /\ inputAudioContext = "running" /\ audioStream = "live"

\* C5: over two invocations of close() every release action is performed
\* exactly once (the capture releases at most once, when there is nothing to
\* release), the second invocation being a no-op.
C5_CloseIdempotent ==
    closeCalls = 2 =>
        /\ released["outputClose"] = 1
        /\ released["sessionClose"] = 1
        /\ \A r \in {"disconnect", "inputClose", "trackStop"} : released[r] <= 1

\* C6: once close() has been invoked, the capture node is disconnected, no
\* audio context is running, no microphone track is live and the remote
\* session is closed, whatever happens afterwards.
C6_CloseReleasesAll ==
    closeCalls >= 1 =>
        /\ scriptProcessor # "connected"
        /\ inputAudioContext # "running"
        /\ audioStream # "live"
        /\ outputAudioContext = "closed"
        /\ remoteSession \in {"closing", "closed"}

\* C7: when getUserMedia is rejected, no session handle has been or will be
\* returned, startSession has not succeeded and the UI does not show the
\* session as active.
C7_MicFailureFailsOpen ==
    onopenPc = "micDenied" =>
        /\ ~handleReturned
        /\ startPc # "started"
        /\ ~isSessionActive

\* C8: the step that handles an interruption signal leaves the source set
\* empty and nextStartTime at 0, having stopped every source that was in the
\* set; a frame whose handling begins with nextStartTime at 0 is given the
\* current time as its cursor.
C8_InterruptionReset ==
    /\ [][interrupts' = interrupts + 1 =>
            /\ sources' = {}
            /\ nextStartTime' = 0
            /\ sources \subseteq stopped']_vars
    /\ [][(nCreated' = nCreated + 1 /\ nextStartTime = 0) =>
            nextStartTime' = currentTime]_vars

\* an interruption discarded two scheduled sources
C8_Witness ==
    /\ interrupts >= 1
    /\ Cardinality(stopped) >= 2
    /\ sources = {}
    /\ nextStartTime = 0

\* a source is audible: started, not stopped, and not yet played to its end
Playing(id) == id \in Started /\ id \notin stopped /\ currentTime < ActualEnd(id)

\* C9: no frame delivered before an interruption signal that has been handled
\* is playing or scheduled.
C9_NoLeftoverAudio ==
    \A id \in Started : srcInfo[id].epoch < interrupts => ~Playing(id)

C12_OneCapturePipeline == pipelinesCreated <= 1

C12_Witness == pipelinesCreated = 1 /\ scriptProcessor = "connected" /\ forwarded > 0

\* C13: once close() has been invoked no microphone frame is forwarded to the
\* remote session and no playback buffer is scheduled, whatever capture or
\* inbound-message events are still delivered.
C13_ClosedStaysClosed ==
    /\ forwardedClosed = 0
    /\ \A id \in Started : ~srcInfo[id].afterClose

\* status fetches issued so far (line 226), answered or not
IssuedFetches == Len(fetches) + (IF genPc = "fetching" THEN 1 ELSE 0)

C14_RequestOutstanding == nextCalls = Len(emitted) + 1

C14_NoFetchOnceEnded ==
    genPc \in {"returned", "threw"} => (genPc' = genPc /\ fetches' = fetches)

\* C14: the poller sleeps and fetches only while a request of the consumer
\* for the next snapshot is outstanding, one fetch at most per request after
\* the first; once the consumer has stopped asking (the generator is closed)
\* no status fetch is issued any more.
C14_LazyPolling ==
    /\ [](IssuedFetches <= IF nextCalls = 0 THEN 0 ELSE nextCalls - 1)
    /\ [](genPc \in {"sleeping", "fetching"} => C14_RequestOutstanding)
    /\ [][C14_NoFetchOnceEnded]_vars

C14_Witness ==
    /\ genPc = "returned"
    /\ yieldAt = "pollFailed"
    /\ Truthy(Last(emitted).error)
    /\ Len(fetches) >= 3
    /\ nextCalls = Len(fetches) + 1

\* C15: no remote call is retried: an adapter invocation has issued exactly
\* one request from the moment it issues it, whether the request succeeds or
\* fails; so have the video submission and the live connect; and a failed
\* status fetch is the last fetch of its poller.
C15_NoRetry ==
    /\ requests = (IF adapterPc \in {"requesting", "streaming", "resolved", "rejected"}
                   THEN 1 ELSE 0)
    /\ submits = (IF genPc = "notStarted" THEN 0 ELSE 1)
    /\ connects = (IF connectPc = "idle" THEN 0 ELSE 1)
    /\ \A i \in 1..Len(fetches) :
          fetches[i] = "error" => i = Len(fetches) /\ genPc \notin {"sleeping", "fetching"}

C15_Witness ==
    /\ adapterPc = "rejected"
    /\ adapterKind = "generateSpeech"
    /\ adapterError = "network error"
    /\ genPc = "returned"
    /\ Len(fetches) >= 2
    /\ Last(fetches) = "error"
    /\ connectPc = "rejected"

C16_EndedWithTerminal ==
    genPc = "returned" /\ TerminalEmitted /\ Last(emitted).progress = TerminalProgress

\* a consumer's request at a snapshot of an operation that is still pending
\* sends the poller to its next sleep and fetch
C16_KeepsPolling ==
    (/\ genPc = "yield"
     /\ yieldAt \in {"started", "processing"}
     /\ ~currentOperation.done
     /\ genPc' # genPc) => genPc' = "sleeping"

\* C16: with a consumer that keeps asking and a server that ends up reporting
\* the operation done or failing a fetch, the poller, once entered, emits a
\* terminal snapshot (progress 100) and then ends; it never ends without one;
\* and while the operation is pending and no fetch failed it polls again.
C16_PollerTerminates ==
    /\ (yieldAt = "started") ~> C16_EndedWithTerminal
    /\ [](genPc = "returned" => C16_EndedWithTerminal)
    /\ [][C16_KeepsPolling]_vars

C16_Witness ==
    /\ C16_EndedWithTerminal
    /\ yieldAt = "final"
    /\ PendingSoFar >= 2

C17_Chat == adapterKind = "generateChatResponseStream"

\* the step that leaves the location read: the stream is opened, for the
\* first time, and nothing is raised
C17_LocationStep ==
    (C17_Chat /\ adapterPc = "locating" /\ adapterPc' # "locating")
        => (adapterPc' = "requesting" /\ requests' = 1 /\ adapterError' = Null)

\* C17: with maps or auto grounding a location read that fails or times out
\* still leads to the chat stream being opened, exactly once, without a
\* location in the request and without an error to the caller; with none or
\* search grounding no location read is made.
C17_LocationFailureTolerated ==
    /\ [][C17_LocationStep]_vars
    /\ [](C17_Chat /\ NeedsLocation(grounding) /\ requestLatLng = "absent"
            => requests = 1 /\ locationReads = 1 /\ adapterPc # "locating")
    /\ [](C17_Chat /\ adapterPc = "rejected" => requests = 1)
    /\ [](C17_Chat /\ ~NeedsLocation(grounding)
            => locationReads = 0 /\ requestLatLng = "absent")

C17_Witness ==
    /\ C17_Chat
    /\ grounding = "auto"
    /\ requestLatLng = "absent"
    /\ adapterPc = "resolved"
    /\ requests = 1
    /\ adapterError = Null

\* the generation ended with an error that contains "entity was not found":
\* carried by the last snapshot, or thrown by the initial request
C18_EndedEntityNotFound ==
    \/ genPc = "returned" /\ emitted # <<>> /\ IncludesEntityNotFound(Last(emitted).error)
    \/ genPc = "threw" /\ IncludesEntityNotFound(thrown)

\* C18: whenever a video generation ends with an error containing "entity
\* was not found", the component marks the API key as not selected and the
\* error it shows is the invalid-key message, not the remote one.
C18_InvalidKeyShown ==
    C18_EndedEntityNotFound => ~apiKeySelected /\ generationError = InvalidKeyMessage

\* C19: decoding what encode produced gives back the bytes encoded, for
\* every byte sequence.
C19_RoundTrip == decoded # Unset => decoded = pcmData

C19_Witness ==
    /\ decoded # Unset
    /\ Len(pcmData) = 4
    /\ pcmData[1] = 255
    /\ pcmData[4] = 128
    /\ base64[Len(base64)] = Pad

\* the bytes at 0-based offset off of a byte sequence are the base-256
\* digits of v, least significant first
C20_IsLE32(bytes, off, v) ==
    /\ bytes[off + 1] = v % 256
    /\ bytes[off + 2] = (v \div 256) % 256
    /\ bytes[off + 3] = (v \div 65536) % 256
    /\ bytes[off + 4] = v \div 16777216

C20_IsLE16(bytes, off, v) ==
    /\ bytes[off + 1] = v % 256
    /\ bytes[off + 2] = v \div 256

\* C20: pcmToWav(data, 24000, 1, 16) is 44 + len(data) bytes long; bytes 0-3
\* are "RIFF" and 8-11 "WAVE"; the little-endian ChunkSize at offset 4 is
\* 36 + len(data) and Subchunk2Size at offset 40 is len(data); the audio
\* format at offset 20 is 1; the bytes from offset 44 are the data.
C20_WavLayout ==
    wav # Unset =>
        /\ Len(wav) = 44 + Len(pcmData)
        /\ SubSeq(wav, 1, 4) = <<82, 73, 70, 70>>
        /\ SubSeq(wav, 9, 12) = <<87, 65, 86, 69>>
        /\ C20_IsLE32(wav, 4, 36 + Len(pcmData))
        /\ C20_IsLE32(wav, 40, Len(pcmData))
        /\ C20_IsLE16(wav, 20, 1)
        /\ SubSeq(wav, 45, Len(wav)) = pcmData

C20_Witness ==
    /\ wav # Unset
    /\ Len(pcmData) = LongLength
    /\ wav[5] = (36 + LongLength) % 256
    /\ wav[6] = (36 + LongLength) \div 256

\* C21: decoding fails with an error whenever the byte length is not a
\* multiple of channels * 2, and otherwise yields a buffer of exactly
\* byteLength / (channels * 2) frames per channel.
C21_MalformedRejected ==
    audioBuffer # NoBuffer =>
        IF Len(pcmData) % (decodeChannels * 2) # 0
        THEN audioBuffer.error # "none"
        ELSE /\ audioBuffer.error = "none"
             /\ audioBuffer.length = Len(pcmData) \div (decodeChannels * 2)
             /\ \A channel \in 1..decodeChannels :
                    Len(audioBuffer.channelData[channel]) = audioBuffer.length

\* C30: every input sample between -1.0 and +1.0 is converted to a 16-bit
\* integer of the sign of the sample; a sample of +1.0 does not come out
\* negative.
C30_SignKept ==
    int16 # NotFilled =>
        \A i \in 1..Len(inputData) :
            /\ inputData[i] > 0 => int16[i] > 0
            /\ inputData[i] < 0 => int16[i] < 0
            /\ inputData[i] = 0 => int16[i] = 0

\* --------------------------------------------------------------------- C22
C22_InboundStep == onmessage \/ decodeResumed \/ ended

C22_CursorStep == onmessage \/ decodeResumed

C23_ProgressFormula ==
    /\ Len(emitted) >= 1 => emitted[1].progress = 10
    /\ \A k \in 1..Len(fetches) :
          fetches[k] # "error" => emitted[k + 1].progress = Min(10 + 5 * k, 95)
    /\ \A i \in 1..Len(emitted) :
          emitted[i].progress = 100 => IsTerminalIndex(i)

\* a run of eighteen successful fetches, the last one past the cap, that
\* ended with its terminal snapshot
C23_Witness ==
    /\ FetchesWith({"pending", "done"}) >= 18
    /\ emitted[19].progress = 95
    /\ IsTerminalIndex(Len(emitted))
    /\ Last(emitted).progress = 100

\* --------------------------------------------------------------------- C24
C24_HasResult(snapshot) == snapshot.videoUrl # Null

C24_HasError(snapshot) == snapshot.error # Null

\* C24: no snapshot carries both a result and an error; a snapshot with
\* progress below 100 carries neither; the terminal snapshot carries exactly
\* one of the two.
C24_ResultXorError ==
    \A i \in 1..Len(emitted) :
        /\ ~(C24_HasResult(emitted[i]) /\ C24_HasError(emitted[i]))
        /\ emitted[i].progress < 100 =>
              ~C24_HasResult(emitted[i]) /\ ~C24_HasError(emitted[i])
        /\ IsTerminalIndex(i) =>
              C24_HasResult(emitted[i]) # C24_HasError(emitted[i])

\* a run that polled, then ended on a failed status fetch: its terminal
\* snapshot carries the error and no result, the ones before it carry neither
C24_Witness ==
    /\ yieldAt = "pollFailed"
    /\ Len(emitted) >= 3
    /\ C24_HasError(Last(emitted))
    /\ ~C24_HasResult(Last(emitted))
    /\ ~C24_HasError(emitted[Len(emitted) - 1])

\* --------------------------------------------------------------------- C25
\* the component has obtained the handle of a live session
C25_HandleObtained == startPc = "started"

\* C25: whenever the component shows the session as inactive and has obtained
\* a session handle, close() has been called on it: the microphone is not
\* live and neither audio context is running.
C25_InactiveMeansClosed ==
    (~isSessionActive /\ C25_HandleObtained) =>
        /\ closeCalls > 0
        /\ audioStream # "live"
        /\ inputAudioContext # "running"
        /\ outputAudioContext # "running"

\* --------------------------------------------------------------------- C26
\* C26: once the component is unmounted, a live session it started and whose
\* connect has resolved has had close() called, the one whose connect was
\* still pending at unmount included.
C26_NoSessionOutlivesUnmount ==
    (~mounted /\ connectPc = "resolved") => closeCalls > 0

\* --------------------------------------------------------------------- C27
\* the run has ended: the for-await loop was left, or the generator threw
C27_RunEnded == genPc \in {"returned", "threw"}

\* C27: once a generation run has ended, by its loop ending, by a break on an
\* error snapshot or by an exception, the interval of the rotating progress
\* messages is not running and isLoading is false.
C27_TimerCancelled ==
    C27_RunEnded => messageInterval # "running" /\ ~isLoading

\* --------------------------------------------------------------------- C28
\* the chunks of the stream that carried citations
C28_Cited == {i \in 1..Len(chatChunks) : chatChunks[i].groundingChunks # Undefined}

\* the citations of the last chunk that carried any
C28_LastCitations ==
    chatChunks[CHOOSE i \in C28_Cited : \A j \in C28_Cited : j <= i].groundingChunks

RECURSIVE C28_Concatenated(_)
C28_Concatenated(chunks) ==
    IF chunks = <<>> THEN <<>> ELSE Head(chunks).text \o C28_Concatenated(Tail(chunks))

\* the stream has completed and React has run every queued update function
C28_Final == chatPc = "ended" /\ updateQueue = <<>>

\* C28: once the stream has completed and every update has been applied, the
\* model message carries the citations of the last chunk that had any, in
\* the order the API gave them, whenever React ran the update functions; and
\* its text is the fragments of all chunks in stream order.
C28_FinalCitations ==
    C28_Final =>
        /\ C28_Cited # {} => messageGrounding = C28_LastCitations
        /\ messageText = C28_Concatenated(chatChunks)

\* --------------------------------------------------------------------- C29
\* the recording has been stopped and the recorder's events have been fired
C29_Stopped == mediaRecorder = "inactive" /\ recorderTasks = <<>>

\* C29: no invocation of a recording handler fails; every transcription
\* request carries the chunk of its recording, so it was issued after that
\* chunk was delivered; and once a recording is stopped and the recorder's
\* events are fired, there has been exactly one transcription request and one
\* stop of the microphone track per recording.
C29_OneTranscription ==
    /\ handlerFailures = 0
    /\ \A i \in 1..Len(transcribeCalls) : transcribeCalls[i] # <<>>
    /\ C29_Stopped =>
          /\ Len(transcribeCalls) = recordings
          /\ trackStopCalls = recordings

====
